---- MODULE Spec2Model ----
(***************************************************************************)
(* Model of src/main.rs: the NvidiaApp run loop (run_app), the per-tick    *)
(* sampling step (update_state), the frame computation (draw) and the      *)
(* event step (handle_events).                                             *)
(*                                                                         *)
(* Rust arrays and Vecs are 0-based, TLA+ sequences are 1-based: index k   *)
(* of the source is index k+1 here, so core_clock[29] is core_clock[30].   *)
(* The metrics provider (NVML), the terminal and the keyboard are the      *)
(* environment: their answers are inputs chosen with \E.                   *)
(***************************************************************************)
EXTENDS Integers, Sequences, FiniteSets, TLC

VARIABLES
  gpus,         \* NvidiaApp.gpus : sequence of GPUInfo records
  exit,         \* NvidiaApp.exit
  pc,           \* position of the process inside run_app
  device_count, \* run_app's local device_count, -1 before it is read
  area,         \* size of the terminal, what frame.area() returns
  frame,        \* what the last call of draw computed for the rendering surface
  tick_event,   \* the event seen by handle_events in the current tick
  ticks,        \* number of update_state calls made so far
  renders,      \* number of terminal.draw calls that completed
  provided,     \* per device, the readings the provider has returned so far
  read_failed   \* TRUE once a provider call of update_state has returned Err

vars == <<gpus, exit, pc, device_count, area, frame, tick_event, ticks,
          renders, provided, read_failed>>

(***************************************************************************)
(* Bounds of the model.                                                    *)
(***************************************************************************)
MaxDevices == 2
MaxTicks == 35
MaxLayoutDevices == 6
MaxHeight == 30

(***************************************************************************)
(* Program constants.                                                      *)
(***************************************************************************)
CAPACITY == 30

\* the terminal sizes of the run loop's model
Canvases ==
  { [x |-> 0, y |-> 0, width |-> 81, height |-> 24],
    [x |-> 0, y |-> 0, width |-> 120, height |-> 50] }

\* the terminal sizes of the layout's model

LayoutCanvases ==
  { [x |-> 0, y |-> 0, width |-> w, height |-> h] : w \in {80, 101}, h \in 1..MaxHeight }

(***************************************************************************)
(* The telemetry windows.                                                  *)
(***************************************************************************)
ZeroWindow == [i \in 1..CAPACITY |-> 0]

rotate_left_drop(a, k) == SubSeq(a, k + 1, Len(a))

rotate_right(a, k) == [i \in 1..Len(a) |-> a[((i - 1 + Len(a) - k) % Len(a)) + 1]]

\* <[u32]>::rotate_left(k): the element at index i moves to index i - k, cyclically
rotate_left(a, k) == [i \in 1..Len(a) |-> a[((i - 1 + k) % Len(a)) + 1]]

GPUInfo(name) ==
  [core_clock |-> ZeroWindow, temperature |-> ZeroWindow, device_name |-> name]

update_core_clock_early(g, current_clock) ==
  [g EXCEPT !.core_clock = rotate_left([@ EXCEPT ![30] = current_clock], 1)]

update_core_clock_right(g, current_clock) ==
  [g EXCEPT !.core_clock = [rotate_right(@, 1) EXCEPT ![30] = current_clock]]

\* gpu_info.core_clock.rotate_left(1); gpu_info.core_clock[29] = current_clock;
update_core_clock(g, current_clock) ==
  [g EXCEPT !.core_clock = [rotate_left(@, 1) EXCEPT ![30] = current_clock]]

update_temperature_into_clock(g, gpu_current_temperature) ==
  [g EXCEPT !.core_clock = [rotate_left(@, 1) EXCEPT ![30] = gpu_current_temperature]]

\* gpu_info.temperature.rotate_left(1); gpu_info.temperature[29] = gpu_current_temperature;
update_temperature(g, gpu_current_temperature) ==
  [g EXCEPT !.temperature = [rotate_left(@, 1) EXCEPT ![30] = gpu_current_temperature]]

(***************************************************************************)
(* The metrics provider.  A reading is the nominal value for the device,   *)
(* metric and tick, or 0 (an idle sensor).  In the ticks of ZeroTicks      *)
(* some sensors may read 0: all of them, or the clock of the first device  *)
(* alone.  The ticks are the first two (windows that are still all zero,   *)
(* a zero after a non-zero sample) and the two around the first eviction   *)
(* of a real sample.                                                       *)
(***************************************************************************)
ZeroTicks == {1, 2, 30, 31}

name(i) == <<"GPU", i>>

clock_info(i, t) == (i - 1) * 1000 + t

temperature(i, t) == 40 + i + (t % 3)

expect_or_default(ok, cont) == cont

\* Result::expect: the value when Ok, a panic when Err
expect(ok, cont) == IF ok THEN cont ELSE "panicked"

no_gpus_never(n) == n < 0

\* if device_count == 0
no_gpus(n) == n = 0

(***************************************************************************)
(* The layout.  Layout::split of the rendering surface gives a Percentage  *)
(* constraint p a segment of p percent of the split length, lays the       *)
(* segments out from the start of the area (the default Flex::Start: the   *)
(* space no constraint asks for stays after the last segment) and rounds   *)
(* each segment edge to the nearest cell.  The percentages passed by draw  *)
(* never sum to more than 100.                                             *)
(***************************************************************************)
RECURSIVE PrefixSum(_, _)
PrefixSum(s, k) == IF k = 0 THEN 0 ELSE s[k] + PrefixSum(s, k - 1)

\* f64::round of num / den for num >= 0, den > 0: halves round away from zero
Round(num, den) == (2 * num + den) \div (2 * den)

split(constraints, start, length) ==
  LET edge(k) == start + Round(length * PrefixSum(constraints, k), 100)
  IN  [i \in 1..Len(constraints) |->
         [pos |-> edge(i - 1), size |-> edge(i) - edge(i - 1)]]

\* num_gpus as u16 (a device count that is a multiple of 65536 would make the
\* division below panic; no such count is within the bounds of the model)
as_u16(n) == n % 65536

\* let percentage = 100 / num_gpus as u16;
percentage(num_gpus) == 100 \div as_u16(num_gpus)

points_shifted(window) == [i \in 1..Len(window) |-> <<i - 31, window[i]>>]

\* window.iter().zip(-29..=0).map(|(v, time)| (time as f64, *v as f64)).collect()
\* u32 and i32 values convert to f64 exactly, so a point is a pair of integers
points(window) ==
  [i \in 1..(IF Len(window) < 30 THEN Len(window) ELSE 30) |-> <<i - 30, window[i]>>]

y_upper_no_floor(window) == window[30]

\* gpu_info.core_clock[29].max(1)
y_upper(window) == IF window[30] >= 1 THEN window[30] ELSE 1

NoFrame == [status |-> "none", area |-> [x |-> 0, y |-> 0, width |-> 0, height |-> 0],
            chunks |-> <<>>, charts |-> <<>>]

\* NvidiaApp::draw: what it hands to the rendering surface, or exit code 1
draw(app_gpus, frame_area) ==
  LET num_gpus == Len(app_gpus) IN
  IF num_gpus = 0
  THEN [status |-> "exit1", area |-> frame_area, chunks |-> <<>>, charts |-> <<>>]
  ELSE
    LET constraints == [i \in 1..num_gpus |-> percentage(num_gpus)]
        rows == split(constraints, frame_area.y, frame_area.height)
        chunks == [i \in 1..num_gpus |->
                     [x |-> frame_area.x, y |-> rows[i].pos,
                      width |-> frame_area.width, height |-> rows[i].size]]
        chart(i) ==
          LET gpu_info == app_gpus[i]
              cols == split(<<50, 50>>, chunks[i].x, chunks[i].width)
              gpu_chunks == [j \in 1..2 |->
                               [x |-> cols[j].pos, y |-> chunks[i].y,
                                width |-> cols[j].size, height |-> chunks[i].height]]
          IN  [clock_chunk |-> gpu_chunks[1],
               temp_chunk |-> gpu_chunks[2],
               clock_title |-> <<"NVIDIA GPU Clock - ", gpu_info.device_name>>,
               temp_title |-> <<"NVIDIA GPU Temperature - ", gpu_info.device_name>>,
               gpu_clock_data |-> points(gpu_info.core_clock),
               gpu_temperature_data |-> points(gpu_info.temperature),
               x_bounds |-> <<-30, 0>>,
               clock_y_bounds |-> <<0, y_upper(gpu_info.core_clock)>>,
               temperature_y_bounds |-> <<0, y_upper(gpu_info.temperature)>>]
    IN  [status |-> "drawn", area |-> frame_area, chunks |-> chunks,
         charts |-> [i \in 1..num_gpus |-> chart(i)]]

(***************************************************************************)
(* Events.                                                                 *)
(***************************************************************************)
NoEvent == <<"None", "", "">>

Events ==
  { NoEvent, <<"PollErr", "", "">>, <<"ReadErr", "", "">>, <<"Resize", "", "">>,
    <<"Key", "Press", "q">>, <<"Key", "Press", "Q">>, <<"Key", "Press", "x">>,
    <<"Key", "Release", "q">> }

handle_key_event_lower_only(app_exit, code) == IF code = "q" THEN TRUE ELSE app_exit

\* match key_event.code { Char('q') | Char('Q') => self.exit(), _ => {} }
handle_key_event(app_exit, code) == IF code \in {"q", "Q"} THEN TRUE ELSE app_exit

(***************************************************************************)
(* Initial state: NvidiaApp::default(), run_app not yet entered.           *)
(***************************************************************************)
Init ==
  /\ gpus = <<>>
  /\ exit = FALSE
  /\ pc = "start"
  /\ device_count = -1
  /\ area \in Canvases
  /\ frame = NoFrame
  /\ tick_event = NoEvent
  /\ ticks = 0
  /\ renders = 0
  /\ provided = <<>>
  /\ read_failed = FALSE

(***************************************************************************)
(* run_app up to the loop: NVML initialisation, the device count, the      *)
(* zero-device exit and the discovery loop.                                *)
(***************************************************************************)
StartOutcomes(n) ==
  {<<"ok", 0>>, <<"init_err", 0>>, <<"count_err", 0>>}
    \cup {<<"device_err", i>> : i \in 1..n} \cup {<<"name_err", i>> : i \in 1..n}

run_app_init ==
  /\ pc = "start"
  /\ \E n \in 0..MaxDevices : \E out \in StartOutcomes(n) :
       LET counted == out[1] \notin {"init_err", "count_err"}
           found == IF out[1] = "ok" THEN n ELSE out[2] - 1
       IN  /\ device_count' = IF counted THEN n ELSE device_count
           /\ IF ~counted
              THEN /\ pc' = expect(FALSE, "loop")
                   /\ gpus' = gpus
              ELSE IF no_gpus(n)
              THEN /\ pc' = "exit1"
                   /\ gpus' = gpus
              ELSE /\ pc' = expect(out[1] = "ok", "loop")
                   /\ gpus' = gpus \o [i \in 1..found |-> GPUInfo(name(i))]
           /\ provided' = [i \in 1..Len(gpus') |-> [clock |-> <<>>, temp |-> <<>>]]
  /\ UNCHANGED <<exit, area, frame, tick_event, ticks, renders, read_failed>>

(***************************************************************************)
(* update_state.  fail names the provider call that returns Err, if any:   *)
(* <<"none", 0>>, <<"init", 0>> (Nvml::init), or the device lookup, clock  *)
(* reading or temperature reading of device i.  Every call before it has   *)
(* succeeded and its push has been made; no call after it is made.         *)
(***************************************************************************)
FailPoints(n) ==
  {<<"none", 0>>, <<"init", 0>>}
    \cup {<<w, i>> : w \in {"device", "clock", "temp"}, i \in 1..n}

clock_read(fail, i) ==
  \/ fail[1] = "none"
  \/ fail[1] \in {"device", "clock", "temp"} /\ i < fail[2]
  \/ fail[1] = "temp" /\ i = fail[2]

temp_read(fail, i) ==
  \/ fail[1] = "none"
  \/ fail[1] \in {"device", "clock", "temp"} /\ i < fail[2]

Slots(fail, n) ==
  {<<i, "clock">> : i \in {j \in 1..n : clock_read(fail, j)}}
    \cup {<<i, "temp">> : i \in {j \in 1..n : temp_read(fail, j)}}

ZeroedSets(slots, t) ==
  {{}} \cup (IF t \in ZeroTicks
             THEN {slots, slots \cap {<<1, "clock">>}} \ {{}}
             ELSE {})

update_state ==
  /\ pc = "loop"
  /\ ~exit
  /\ ticks < MaxTicks
  /\ \E fail \in FailPoints(Len(gpus)) :
     \E zeroed \in ZeroedSets(Slots(fail, Len(gpus)), ticks + 1) :
       LET t == ticks + 1
           current_clock(i) == IF <<i, "clock">> \in zeroed THEN 0 ELSE clock_info(i, t)
           gpu_current_temperature(i) ==
             IF <<i, "temp">> \in zeroed THEN 0 ELSE temperature(i, t)
           after_clock(i) ==
             IF clock_read(fail, i)
             THEN update_core_clock(gpus[i], current_clock(i)) ELSE gpus[i]
           after_temperature(i) ==
             IF temp_read(fail, i)
             THEN update_temperature(after_clock(i), gpu_current_temperature(i))
             ELSE after_clock(i)
       IN  /\ gpus' = [i \in 1..Len(gpus) |-> after_temperature(i)]
           /\ provided' =
                [i \in 1..Len(gpus) |->
                   [clock |-> IF clock_read(fail, i)
                              THEN Append(provided[i].clock, current_clock(i))
                              ELSE provided[i].clock,
                    temp |-> IF temp_read(fail, i)
                             THEN Append(provided[i].temp, gpu_current_temperature(i))
                             ELSE provided[i].temp]]
           /\ read_failed' = (read_failed \/ fail[1] \in {"device", "clock", "temp"})
           /\ pc' = expect(fail[1] = "none", "draw")
  /\ ticks' = ticks + 1
  /\ tick_event' = NoEvent
  /\ UNCHANGED <<exit, device_count, area, frame, renders>>

(***************************************************************************)
(* terminal.draw(|frame| self.draw(frame))?                                *)
(***************************************************************************)
draw_frame ==
  /\ pc = "draw"
  /\ \E io_ok \in BOOLEAN :
       LET f == draw(gpus, area) IN
       IF f.status = "exit1"
       THEN /\ pc' = "exit1"
            /\ frame' = f
            /\ renders' = renders
       ELSE IF io_ok
       THEN /\ pc' = "events"
            /\ frame' = f
            /\ renders' = renders + 1
       ELSE /\ pc' = "err"
            /\ frame' = frame
            /\ renders' = renders
  /\ UNCHANGED <<gpus, exit, device_count, area, tick_event, ticks, provided,
                 read_failed>>

(***************************************************************************)
(* handle_events, followed by the sleep that ends the loop body.           *)
(***************************************************************************)
handle_events ==
  /\ pc = "events"
  /\ \E ev \in Events : \E size \in Canvases :
       /\ tick_event' = ev
       /\ pc' = IF ev[1] = "PollErr" THEN "panicked"
                ELSE IF ev[1] = "ReadErr" THEN "err" ELSE "loop"
       /\ exit' = IF ev[1] = "Key" /\ ev[2] = "Press"
                  THEN handle_key_event(exit, ev[3]) ELSE exit
       /\ area' = IF ev[1] = "Resize" THEN size ELSE area
  /\ UNCHANGED <<gpus, device_count, frame, ticks, renders, provided, read_failed>>

(***************************************************************************)
(* while !self.exit { ... } Ok(())                                         *)
(***************************************************************************)
loop_exit ==
  /\ pc = "loop"
  /\ exit
  /\ pc' = "done"
  /\ UNCHANGED <<gpus, exit, device_count, area, frame, tick_event, ticks, renders,
                 provided, read_failed>>

Next == run_app_init \/ update_state \/ draw_frame \/ handle_events \/ loop_exit

Spec == Init /\ [][Next]_vars

(***************************************************************************)
(* The layout on its own: draw applied to any number of devices and any    *)
(* canvas, from the state after a first tick in which every sensor read 0. *)
(***************************************************************************)
InitLayout ==
  /\ \E n \in 1..MaxLayoutDevices :
       /\ gpus = [i \in 1..n |-> GPUInfo(name(i))]
       /\ device_count = n
       /\ provided = [i \in 1..n |-> [clock |-> <<0>>, temp |-> <<0>>]]
  /\ exit = FALSE
  /\ pc = "draw"
  /\ area \in LayoutCanvases
  /\ frame = NoFrame
  /\ tick_event = NoEvent
  /\ ticks = 1
  /\ renders = 0
  /\ read_failed = FALSE

NextLayout == draw_frame

SpecLayout == InitLayout /\ [][NextLayout]_vars

(***************************************************************************)
(* Properties.                                                             *)
(***************************************************************************)
Windows == {<<i, m>> : i \in 1..Len(gpus), m \in {"clock", "temp"}}

\* the window of device w[1] for metric w[2]
Window(w) == IF w[2] = "clock" THEN gpus[w[1]].core_clock ELSE gpus[w[1]].temperature

\* the readings the provider has returned for that device and metric, in order
Readings(w) == IF w[2] = "clock" THEN provided[w[1]].clock ELSE provided[w[1]].temp

\* the positions of run_app at which every tick started so far has made all its pushes
TicksCompleted == pc \in {"loop", "draw", "events", "done", "err"}

\* C1: once a window has received 30 or more pushes it holds exactly the last
\* 30 pushed values in push order: index 29 (here 30) is the most recent push
\* and index 0 (here 1) the value pushed 29 pushes earlier.
C1_WindowHoldsLast30 ==
  \A w \in Windows :
    Len(Readings(w)) >= 30 =>
      /\ Window(w) = SubSeq(Readings(w), Len(Readings(w)) - 29, Len(Readings(w)))
      /\ Window(w)[30] = Readings(w)[Len(Readings(w))]
      /\ Window(w)[1] = Readings(w)[Len(Readings(w)) - 29]

\* 35 pushes of 1..35 into the clock window of the first device leave 6..35
C1_Witness ==
  /\ pc = "draw"
  /\ ticks = 35
  /\ provided[1].clock = [k \in 1..35 |-> k]
  /\ gpus[1].core_clock = [k \in 1..30 |-> k + 5]

\* C2: every window of every device has length 30 in every reachable state,
\* before any push and after any sequence of pushes.
C2_WindowLength ==
  \A i \in 1..Len(gpus) :
    /\ Len(gpus[i].core_clock) = 30
    /\ Len(gpus[i].temperature) = 30

C2_Witness ==
  /\ Len(gpus) >= 1
  /\ ticks > 30
  /\ \E w \in Windows : Len(Readings(w)) > 30 /\ Len(Window(w)) = 30

RECURSIVE SumHeights(_, _)
SumHeights(chunks, k) == IF k = 0 THEN 0 ELSE chunks[k].height + SumHeights(chunks, k - 1)

\* C3: the rows computed for N >= 1 devices have heights that sum to the full
\* canvas height, and no row is more than one cell taller than another.
C3_RowsFillCanvas ==
  frame.status = "drawn" =>
    /\ Len(frame.chunks) = Len(gpus)
    /\ SumHeights(frame.chunks, Len(frame.chunks)) = frame.area.height
    /\ \A i, j \in 1..Len(frame.chunks) :
         frame.chunks[i].height - frame.chunks[j].height <= 1

\* C4: the Y-axis bounds of a rendered chart are (0, max(newest sample, 1)):
\* the upper bound is at least 1, is the newest sample when that is >= 1, is 1
\* when the newest sample is 0 (an all-zero window included), and no older
\* sample takes part in it.
C4_AxisBounds ==
  (pc = "events" /\ frame.status = "drawn") =>
    \A i \in 1..Len(gpus) :
      LET c == frame.charts[i]
          yb(m) == IF m = "clock" THEN c.clock_y_bounds ELSE c.temperature_y_bounds
      IN  \A m \in {"clock", "temp"} :
            LET newest == Window(<<i, m>>)[30] IN
            /\ yb(m)[1] = 0
            /\ yb(m)[2] >= 1
            /\ newest >= 1 => yb(m)[2] = newest
            /\ newest = 0 => yb(m)[2] = 1
            /\ (\A k \in 1..30 : Window(<<i, m>>)[k] = 0) => yb(m)[2] = 1

\* a window whose newest sample is 0 after larger samples, drawn with bound 1
C4_Witness ==
  /\ pc = "events"
  /\ frame.status = "drawn"
  /\ \E i \in 1..Len(gpus) :
       /\ gpus[i].core_clock[30] = 0
       /\ gpus[i].core_clock[29] > 1
       /\ frame.charts[i].clock_y_bounds = <<0, 1>>
       /\ gpus[i].temperature[29] > gpus[i].temperature[30]
       /\ frame.charts[i].temperature_y_bounds = <<0, gpus[i].temperature[30]>>

\* C5: a draw plots, for every window, exactly 30 points whose times are
\* -29, -28, ..., 0 in ascending order and whose values are samples[0..29] in
\* the same order, and it leaves the windows unchanged.
C5_PlottedPoints ==
  [][(pc = "draw" /\ pc' = "events") =>
       /\ gpus' = gpus
       /\ Len(frame'.charts) = Len(gpus)
       /\ \A i \in 1..Len(gpus) :
            LET c == frame'.charts[i] IN
            /\ Len(c.gpu_clock_data) = 30
            /\ Len(c.gpu_temperature_data) = 30
            /\ \A k \in 1..30 :
                 /\ c.gpu_clock_data[k] = <<k - 30, gpus[i].core_clock[k]>>
                 /\ c.gpu_temperature_data[k] = <<k - 30, gpus[i].temperature[k]>>]_vars

C5_Witness ==
  /\ pc = "events"
  /\ ticks = 31
  /\ frame.status = "drawn"
  /\ frame.charts[1].gpu_clock_data[1] = <<-29, 2>>
  /\ frame.charts[1].gpu_clock_data[30] = <<0, 31>>

\* C6: when the render step of a tick begins, and while its result is on
\* screen, every window of every device has received that tick's sample: each
\* has had one reading per tick and its newest sample is the latest reading.
C6_PushesBeforeRender ==
  /\ pc \in {"draw", "events"} =>
       \A w \in Windows :
         /\ Len(Readings(w)) = ticks
         /\ Window(w)[30] = Readings(w)[ticks]
  /\ pc = "events" =>
       /\ renders = ticks
       /\ \A i \in 1..Len(gpus) :
            /\ frame.charts[i].gpu_clock_data[30][2] = provided[i].clock[ticks]
            /\ frame.charts[i].gpu_temperature_data[30][2] = provided[i].temp[ticks]

C6_Witness ==
  /\ pc = "draw"
  /\ Len(gpus) = 2
  /\ ticks = 2
  /\ renders = 1
  /\ \A w \in Windows : Len(Readings(w)) = 2 /\ Window(w)[30] > 0

\* C7: zero devices at startup means exit code 1 before any window, update or
\* render; the device list is non-empty whenever a tick samples or renders;
\* and draw on an empty device list exits with code 1 and computes no layout.
C7_ZeroDevicesExit ==
  /\ device_count = 0 => pc = "exit1"
  /\ pc = "exit1" =>
       /\ device_count = 0
       /\ gpus = <<>>
       /\ ticks = 0
       /\ renders = 0
       /\ frame = NoFrame
  /\ (pc \in {"draw", "events"} \/ ticks > 0) => Len(gpus) >= 1
  /\ gpus = <<>> =>
       /\ draw(gpus, area).status = "exit1"
       /\ draw(gpus, area).chunks = <<>>
       /\ draw(gpus, area).charts = <<>>

C7_Witness ==
  /\ pc = "exit1"
  /\ device_count = 0
  /\ gpus = <<>>

\* C8: once a device lookup, clock reading or temperature reading has failed
\* in a tick, the process has panicked: that tick is not rendered, no later
\* tick runs and the failed reading is not retried, whatever was pushed before.
C8_ReadFailureIsFatal ==
  read_failed =>
    /\ pc = "panicked"
    /\ renders = ticks - 1
    /\ \A w \in Windows : Len(Readings(w)) \in {ticks - 1, ticks}
    /\ \E w \in Windows : Len(Readings(w)) = ticks - 1

\* the temperature reading of the second device fails after three pushes of the tick
C8_Witness ==
  /\ read_failed
  /\ pc = "panicked"
  /\ Len(gpus) = 2
  /\ ticks = 3
  /\ Len(provided[1].clock) = 3
  /\ Len(provided[1].temp) = 3
  /\ Len(provided[2].clock) = 3
  /\ Len(provided[2].temp) = 2
  /\ gpus[2].core_clock[30] = clock_info(2, 3)

QuitPress == {<<"Key", "Press", "q">>, <<"Key", "Press", "Q">>}

\* C9: a quit key press handled in the event step sets the exit flag; once it
\* is set it stays set, nothing is pushed or rendered any more and the only
\* step left is the return of the loop, which is taken at the loop head after
\* a fully rendered tick; any other event leaves the flag and the windows
\* unchanged and the loop goes on.
C9_QuitBetweenTicks ==
  [][/\ exit => (exit' /\ gpus' = gpus /\ ticks' = ticks /\ renders' = renders
                  /\ pc = "loop" /\ pc' = "done")
     /\ pc' = "done" => (pc = "loop" /\ exit /\ renders = ticks)
     /\ pc = "events" =>
          /\ tick_event' \in QuitPress => (exit' /\ pc' = "loop")
          /\ (tick_event' \notin QuitPress
                /\ tick_event'[1] \notin {"PollErr", "ReadErr"}) =>
               (exit' = exit /\ gpus' = gpus /\ pc' = "loop")]_vars

C9_Witness ==
  /\ pc = "done"
  /\ exit
  /\ tick_event = <<"Key", "Press", "Q">>
  /\ ticks = 2
  /\ renders = 2

\* the window that t readings h leave behind: max(0, 30 - t) zeros, then the
\* last min(t, 30) readings
ZerosThenLast(h) ==
  [k \in 1..30 |-> IF k + Len(h) - 30 >= 1 THEN h[k + Len(h) - 30] ELSE 0]

\* C10: after t completed ticks without a read failure every window is
\* max(0, 30 - t) zeros followed by the last min(t, 30) readings of its own
\* device and metric in tick order (one push per tick, all windows aligned),
\* and the device list is the one discovered at startup.
C10_WindowsFollowTicks ==
  TicksCompleted =>
    /\ Len(gpus) = device_count
    /\ \A i \in 1..Len(gpus) : gpus[i].device_name = name(i)
    /\ \A w \in Windows :
         /\ Len(Readings(w)) = ticks
         /\ Window(w) = ZerosThenLast(Readings(w))
         /\ \A k \in 1..ticks :
              Readings(w)[k] \in
                {0, IF w[2] = "clock" THEN clock_info(w[1], k) ELSE temperature(w[1], k)}

C10_Witness ==
  /\ pc = "loop"
  /\ ticks = 3
  /\ Len(gpus) = 2
  /\ gpus[2].core_clock[27] = 0
  /\ gpus[2].core_clock[28] = clock_info(2, 1)
  /\ gpus[2].core_clock[30] = clock_info(2, 3)
  /\ gpus[1].temperature[29] = temperature(1, 2)
  /\ gpus[1].core_clock[29] = 0

====
